---------------------------- MODULE Spec2Model ----------------------------
(***************************************************************************)
(* Model of bindings/python/scripts/generate.py: the class `bind` (the     *)
(* recursive walk handle_node over the JSON tree, the kind_functions       *)
(* table, the handlers, end_scope, handle_final) and the function          *)
(* generate.                                                               *)
(*                                                                         *)
(* Python strings are modelled as sequences of tokens (TLA+ strings):      *)
(* concatenation and f-strings are \o, str.join is Join, str.replace(t,"") *)
(* removes the token t, str.startswith looks at the first token, and the   *)
(* substring test `a in b` is SubStr (a contiguous run of b's tokens).     *)
(* JSON nodes are records; a list of nodes is a sequence.                  *)
(***************************************************************************)
EXTENDS Integers, Sequences, FiniteSets, TLC

\* ------------------------------------------------------------------------
\* Bounds of the model's inputs.

\* Largest number of nodes of a tree drawn from the grammar ChildKinds.
MaxNodes == 4

\* Largest number of members of the aggregate in a tree drawn from MemberMenu.
MaxMembers == 3

\* ------------------------------------------------------------------------
\* Python string helpers, on token sequences.

RECURSIVE Remove(_, _)
\* s.replace(t, ""), for a token t.
Remove(s, t) ==
    IF s = <<>> THEN <<>>
    ELSE IF Head(s) = t THEN Remove(Tail(s), t)
    ELSE <<Head(s)>> \o Remove(Tail(s), t)

\* .replace("struct ", "").replace("pcl::", "")
StripPrefixes(s) == Remove(Remove(s, "struct "), "pcl::")

RECURSIVE Join(_, _)
\* sep.join(strs)
Join(strs, sep) ==
    IF strs = <<>> THEN <<>>
    ELSE IF Len(strs) = 1 THEN strs[1]
    ELSE strs[1] \o <<sep>> \o Join(Tail(strs), sep)

\* a in b, for strings a and b: a is a contiguous part of b.
SubStr(a, b) ==
    \E i \in 0..(Len(b) - Len(a)) : SubSeq(b, i + 1, i + Len(a)) = a

\* s.lower(), for the element types the constructor handler lowers.
Lower(s) ==
    IF s = <<"Float">> THEN <<"float">>
    ELSE IF s = <<"Int">> THEN <<"int">>
    ELSE s

RECURSIVE LastPart(_)
\* s.split("/")[-1]
LastPart(s) ==
    IF \E i \in 1..Len(s) : s[i] = "/"
    THEN LastPart(Tail(s))
    ELSE s

RECURSIVE Flatten(_)
\* The concatenation of a sequence of sequences.
Flatten(ss) == IF ss = <<>> THEN <<>> ELSE Head(ss) \o Flatten(Tail(ss))

\* ------------------------------------------------------------------------
\* bind._initial_pybind_lines
initial_pybind_lines ==
    << <<"#include <pybind11/pybind11.h>">>,
       <<"#include <pybind11/stl.h>">>,
       <<"#include <pybind11/stl_bind.h>">>,
       <<"namespace py = pybind11;">>,
       <<"using namespace py::literals;">> >>

\* ------------------------------------------------------------------------
\* The kind_functions table of bind.__init__.  A bound method is an object:
\* every evaluation of `self.<method>` creates a new one.  An object is
\* modelled by the function it wraps (fn), the alias through which the table
\* refers to it (policy) and its identity (obj: the source line whose
\* evaluation of `self.<method>` created it).

handled_by_pybind == [fn |-> "skip", policy |-> "handled_by_pybind", obj |-> 26]
handled_elsewhere == [fn |-> "skip", policy |-> "handled_elsewhere", obj |-> 27]
no_need_to_handle == [fn |-> "skip", policy |-> "no_need_to_handle", obj |-> 28]
unsure == [fn |-> "skip", policy |-> "unsure", obj |-> 29]

HandledByPybindKinds ==
    {"VAR_DECL", "CALL_EXPR", "ARRAY_SUBSCRIPT_EXPR", "CXX_THROW_EXPR",
     "PAREN_EXPR", "CXX_DELETE_EXPR", "MEMBER_REF", "VARIABLE_REF",
     "RETURN_STMT", "FOR_STMT", "SWITCH_STMT", "CASE_STMT", "DEFAULT_STMT",
     "CXX_TRY_STMT", "CXX_CATCH_STMT"}

HandledElsewhereKinds ==
    {"CXX_BASE_SPECIFIER", "CXX_METHOD", "PARM_DECL", "FIELD_DECL",
     "ANONYMOUS_UNION_DECL", "ANONYMOUS_STRUCT_DECL", "NAMESPACE_REF",
     "TYPE_REF", "TEMPLATE_NON_TYPE_PARAMETER"}

NoNeedToHandleKinds ==
    {"TRANSLATION_UNIT", "INIT_LIST_EXPR", "CXX_NULL_PTR_LITERAL_EXPR",
     "CXX_STATIC_CAST_EXPR", "STRING_LITERAL", "OBJC_STRING_LITERAL",
     "ALIGNED_ATTR", "BINARY_OPERATOR", "UNARY_OPERATOR", "COMPOUND_STMT",
     "IF_STMT"}

UnsureKinds ==
    {"FRIEND_DECL", "FUNCTION_DECL", "UNEXPOSED_EXPR", "MEMBER_REF_EXPR",
     "DECL_REF_EXPR", "OBJ_BOOL_LITERAL_EXPR", "INTEGER_LITERAL",
     "FLOATING_LITERAL", "MACRO_DEFINITION", "MACRO_INSTANTIATION",
     "OVERLOADED_DECL_REF", "TEMPLATE_REF", "DECL_STMT"}

\* The keys of kind_functions.
RegisteredKinds ==
    HandledByPybindKinds \cup HandledElsewhereKinds \cup NoNeedToHandleKinds
    \cup UnsureKinds
    \cup {"NAMESPACE", "CONSTRUCTOR", "INCLUSION_DIRECTIVE", "STRUCT_DECL",
          "CLASS_DECL", "CLASS_TEMPLATE", "FUNCTION_TEMPLATE"}

kind_functions ==
    [k \in RegisteredKinds |->
        CASE k \in HandledByPybindKinds -> handled_by_pybind
          [] k \in HandledElsewhereKinds -> handled_elsewhere
          [] k \in NoNeedToHandleKinds -> no_need_to_handle
          [] k \in UnsureKinds -> unsure
          [] k = "NAMESPACE" ->
                [fn |-> "handle_namespace", policy |-> "emit", obj |-> 32]
          [] k = "CONSTRUCTOR" ->
                [fn |-> "handle_constructor", policy |-> "emit", obj |-> 35]
          [] k = "INCLUSION_DIRECTIVE" ->
                [fn |-> "handle_inclusion_directive", policy |-> "emit", obj |-> 36]
          [] k = "STRUCT_DECL" ->
                [fn |-> "handle_struct_decl", policy |-> "emit", obj |-> 38]
          [] k = "CLASS_DECL" ->
                [fn |-> "handle_struct_decl", policy |-> "emit", obj |-> 39]
          [] k = "CLASS_TEMPLATE" ->
                [fn |-> "skip", policy |-> "skip", obj |-> 89]
          [] k = "FUNCTION_TEMPLATE" ->
                [fn |-> "skip", policy |-> "skip", obj |-> 91]]

\* The value of the expression `self.skip` in handle_node: a bound method
\* object created by this evaluation, so none of the objects of the table.
self_skip == [fn |-> "skip", policy |-> "skip", obj |-> 179]

\* a == b on bound methods: the same function of the same instance.
eq_(a, b) == a.fn = b.fn

\* a is b: the same object.
is_(a, b) == a.obj = b.obj


\* ------------------------------------------------------------------------
\* Helpers over sequences of nodes.

RECURSIVE SelectKind(_, _)
\* [sub_item for sub_item in ms if sub_item["kind"] == k]
SelectKind(ms, k) ==
    IF ms = <<>> THEN <<>>
    ELSE IF Head(ms).kind = k THEN <<Head(ms)>> \o SelectKind(Tail(ms), k)
    ELSE SelectKind(Tail(ms), k)

AnonymousKinds == {"ANONYMOUS_UNION_DECL", "ANONYMOUS_STRUCT_DECL"}

RECURSIVE get_fields_from_anonymous(_)
\* bind.get_fields_from_anonymous: the FIELD_DECL members of item, and those
\* of its anonymous union/struct members, recursively, in encounter order.
get_fields_from_anonymous(item) ==
    Flatten([i \in 1..Len(item.members) |->
        LET sub_item == item.members[i] IN
        IF sub_item.kind = "FIELD_DECL" THEN <<sub_item>>
        ELSE IF sub_item.kind \in AnonymousKinds
             THEN get_fields_from_anonymous(sub_item)
        ELSE <<>>])

\* ------------------------------------------------------------------------
\* The lines the handlers append.

\* bind.handle_namespace
handle_namespace(self_name) == << <<"namespace ">> \o self_name \o <<"{">> >>

\* The member-exposure line of a field of the aggregate self_name.
FieldLine(self_name, field) ==
    IF field.element_type = <<"ConstantArray">>
    THEN <<".def_property_readonly(\"">> \o field.name \o <<"\", [](">>
         \o self_name \o <<"& obj) {return obj.">> \o field.name \o <<"; })">>
    ELSE <<".def_readwrite(\"">> \o field.name \o <<"\", &">> \o self_name
         \o <<"::">> \o field.name \o <<")">>

\* The method-exposure line of a method of the aggregate self_name.
MethodLine(self_name, method) ==
    <<".def(\"">> \o method.name \o <<"\", py::overload_cast<>(&">>
    \o self_name \o <<"::">> \o method.name \o <<"))">>

\* The names a method must not have to be bound: ("PCL_DEPRECATED") is a
\* parenthesised string, not a tuple.
DeprecationMarker == <<"PCL", "_", "DEPRECATED">>

\* sub_item["name"] not in ("PCL_DEPRECATED")
NotDeprecated(method_name) == ~SubStr(method_name, DeprecationMarker)

RECURSIVE ClassName(_, _, _)
\* The loop over the members that rewrites class_name at every TYPE_REF.
ClassName(class_name, self_name, ms) ==
    IF ms = <<>> THEN class_name
    ELSE IF Head(ms).kind = "TYPE_REF"
         THEN ClassName(self_name \o <<"<">> \o StripPrefixes(Head(ms).name)
                        \o <<">">>, self_name, Tail(ms))
    ELSE ClassName(class_name, self_name, Tail(ms))

\* The py::class_ registration line.
ClassLine(self_name, self_members) ==
    LET class_name == ClassName(self_name, self_name, self_members)
        bases == SelectKind(self_members, "CXX_BASE_SPECIFIER")
        cxx_base_specifier_list ==
            StripPrefixes(Join([i \in 1..Len(bases) |-> bases[i].name], ","))
    IN  IF bases # <<>>
        THEN <<"py::class_<">> \o class_name \o <<", ">>
             \o cxx_base_specifier_list \o <<">(m, \"">> \o class_name
             \o <<"\")">>
        ELSE <<"py::class_<">> \o class_name \o <<">(m, \"">> \o class_name
             \o <<"\")">>

DefaultConstructorLine == <<".def(py::init<>())">>

\* The first loop over the members: the fields of every member, whatever its
\* kind, as get_fields_from_anonymous collects them.
AnonymousFieldLines(self_name, self_members) ==
    Flatten([i \in 1..Len(self_members) |->
        LET fields == get_fields_from_anonymous(self_members[i]) IN
        [j \in 1..Len(fields) |-> FieldLine(self_name, fields[j])]])

\* The lines of one member in the second loop.
MemberLines(self_name, sub_item) ==
    IF sub_item.kind = "FIELD_DECL" THEN <<FieldLine(self_name, sub_item)>>
    ELSE IF sub_item.kind = "CXX_METHOD" /\ NotDeprecated(sub_item.name)
         THEN <<MethodLine(self_name, sub_item)>>
    ELSE <<>>

\* The second loop, were it two loops: the fields, then the methods.
handle_struct_decl_grouped(self_name, self_members) ==
    LET fs == SelectKind(self_members, "FIELD_DECL")
        ms == SelectKind(self_members, "CXX_METHOD")
    IN  <<ClassLine(self_name, self_members), DefaultConstructorLine>>
        \o AnonymousFieldLines(self_name, self_members)
        \o Flatten([i \in 1..Len(fs) |-> MemberLines(self_name, fs[i])])
        \o Flatten([i \in 1..Len(ms) |-> MemberLines(self_name, ms[i])])

\* bind.handle_struct_decl
handle_struct_decl(self_name, self_members) ==
    <<ClassLine(self_name, self_members), DefaultConstructorLine>>
    \o AnonymousFieldLines(self_name, self_members)
    \o Flatten([i \in 1..Len(self_members) |->
                    MemberLines(self_name, self_members[i])])

RECURSIVE ElaboratedTypes(_, _)
\* The loop over the members of an Elaborated PARM_DECL: NAMESPACE_REF
\* members extend the prefix, every TYPE_REF member yields a type.
ElaboratedTypes(namespace_ref, ms) ==
    IF ms = <<>> THEN <<>>
    ELSE IF Head(ms).kind = "NAMESPACE_REF"
         THEN ElaboratedTypes(namespace_ref \o Head(ms).name \o <<"::">>,
                              Tail(ms))
    ELSE IF Head(ms).kind = "TYPE_REF"
         THEN <<namespace_ref \o Head(ms).name>>
              \o ElaboratedTypes(namespace_ref, Tail(ms))
    ELSE ElaboratedTypes(namespace_ref, Tail(ms))

\* The types one member of a CONSTRUCTOR adds to parameter_type_list.
ParameterTypes(sub_item) ==
    IF sub_item.kind # "PARM_DECL" THEN <<>>
    ELSE IF sub_item.element_type = <<"LValueReference">>
         THEN LET refs == SelectKind(sub_item.members, "TYPE_REF") IN
              [i \in 1..Len(refs) |-> StripPrefixes(refs[i].name) \o <<" &">>]
    ELSE IF sub_item.element_type = <<"Elaborated">>
         THEN ElaboratedTypes(<<>>, sub_item.members)
    ELSE IF sub_item.element_type \in {<<"Float">>, <<"Int">>}
         THEN <<Lower(sub_item.element_type)>>
    ELSE <<sub_item.element_type>>

\* bind.handle_constructor
handle_constructor(self_members) ==
    LET parameter_type_list ==
            Join(Flatten([i \in 1..Len(self_members) |->
                              ParameterTypes(self_members[i])]), ",")
    IN  IF parameter_type_list # <<>>
        THEN << <<".def(py::init<">> \o parameter_type_list \o <<">())">> >>
        ELSE <<>>

\* bind.handle_inclusion_directive
handle_inclusion_directive == <<>>

\* bind.skip: the record appended to _skipped.
skip(self_item, self_kind, self_name) ==
    [line |-> self_item.line, column |-> self_item.line,
     kind |-> self_kind, name |-> self_name]

\* bind.end_scope: the lines appended for the frame on top of the stack.
end_scope(top) ==
    IF top.kind = "NAMESPACE" THEN << <<"}">> >>
    ELSE IF top.kind = "STRUCT_DECL" THEN << <<";">> >>
    ELSE IF top.kind = "STRUCT_DECL" THEN << <<";">> >>
    ELSE IF top.kind = "CLASS_TEMPLATE" THEN << <<";">> >>
    ELSE <<>>

\* line.startswith("namespace")
StartsWithNamespace(line) == line # <<>> /\ line[1] \in {"namespace ", "namespace py = pybind11;"}

RECURSIVE PrefixFirst(_, _)
\* The loop of handle_final over _linelist: the first line that does not
\* start with "namespace" gets the module declaration in front.
PrefixFirst(lines, module_name) ==
    IF lines = <<>> THEN <<>>
    ELSE IF StartsWithNamespace(Head(lines))
         THEN <<Head(lines)>> \o PrefixFirst(Tail(lines), module_name)
    ELSE << <<"PYBIND11_MODULE(">> \o module_name \o <<", m)", "{">>
            \o Head(lines) >> \o Tail(lines)

\* bind.handle_final: the new value of _linelist.
handle_final_linelist(lines, module_name) == PrefixFirst(lines, module_name)

\* bind.handle_final: the list returned.
handle_final(lines, filename, module_name) ==
    << <<"#include <">> \o filename \o <<">">> >>
    \o initial_pybind_lines
    \o handle_final_linelist(lines, module_name)
    \o << <<"}">> >>

\* ------------------------------------------------------------------------
\* The input: the JSON tree the parser wrote.

\* A node of the tree.
Node(k, a, d, ms) ==
    [kind |-> k, name |-> a.name, element_type |-> a.element_type,
     line |-> 1, column |-> 2, depth |-> d, members |-> ms]

Attr(n, t) == [name |-> n, element_type |-> t]

\* The names and element types the input nodes of a kind take.
Attrs(k) ==
    CASE k = "TRANSLATION_UNIT" -> {Attr(<<"include", "/", "file.h">>, <<>>)}
      [] k = "NAMESPACE" -> {Attr(<<"ns">>, <<>>)}
      [] k = "STRUCT_DECL" -> {Attr(<<"S">>, <<>>)}
      [] k = "CLASS_DECL" -> {Attr(<<"C">>, <<>>)}
      [] k = "CLASS_TEMPLATE" -> {Attr(<<"T">>, <<>>)}
      [] k = "FIELD_DECL" ->
            {Attr(<<"a">>, <<"Int">>), Attr(<<"b">>, <<"ConstantArray">>)}
      [] k = "CXX_METHOD" ->
            {Attr(<<"get">>, <<>>), Attr(<<"PCL">>, <<>>), Attr(<<>>, <<>>),
             Attr(DeprecationMarker, <<>>)}
      [] k = "PARM_DECL" ->
            {Attr(<<"p">>, <<"LValueReference">>),
             Attr(<<"p">>, <<"Elaborated">>),
             Attr(<<"p">>, <<"Float">>), Attr(<<"p">>, <<"Pointer">>)}
      [] k \in {"TYPE_REF", "CXX_BASE_SPECIFIER"} ->
            {Attr(<<"struct ", "pcl::", "Bar">>, <<>>)}
      [] k = "NAMESPACE_REF" -> {Attr(<<"pcl">>, <<>>)}
      [] OTHER -> {Attr(<<>>, <<>>)}

\* The kinds the members of an input node of a kind take.  The one kind
\* here that is no key of kind_functions is ANONYMOUS_ENUM_DECL.
ChildKinds(k) ==
    CASE k = "TRANSLATION_UNIT" ->
            {"NAMESPACE", "STRUCT_DECL", "CLASS_DECL", "CLASS_TEMPLATE",
             "ANONYMOUS_UNION_DECL", "FUNCTION_DECL", "ANONYMOUS_ENUM_DECL"}
      [] k = "NAMESPACE" -> {"NAMESPACE", "STRUCT_DECL", "CLASS_DECL"}
      [] k \in {"STRUCT_DECL", "CLASS_DECL"} ->
            {"FIELD_DECL", "CXX_METHOD", "CONSTRUCTOR", "ANONYMOUS_UNION_DECL",
             "ANONYMOUS_STRUCT_DECL", "STRUCT_DECL", "CXX_BASE_SPECIFIER",
             "TYPE_REF"}
      [] k = "ANONYMOUS_UNION_DECL" -> {"FIELD_DECL", "ANONYMOUS_STRUCT_DECL"}
      [] k = "ANONYMOUS_STRUCT_DECL" ->
            {"FIELD_DECL", "ANONYMOUS_UNION_DECL", "ANONYMOUS_ENUM_DECL"}
      [] k = "CXX_METHOD" -> {"PARM_DECL", "COMPOUND_STMT", "FIELD_DECL"}
      [] k = "CONSTRUCTOR" -> {"PARM_DECL"}
      [] k = "PARM_DECL" -> {"TYPE_REF", "NAMESPACE_REF"}
      [] k = "CLASS_TEMPLATE" -> {"TEMPLATE_NON_TYPE_PARAMETER", "CXX_METHOD"}
      [] k = "FUNCTION_DECL" -> {"PARM_DECL", "COMPOUND_STMT"}
      [] k = "COMPOUND_STMT" -> {"RETURN_STMT"}
      [] OTHER -> {}

RECURSIVE Trees(_, _, _), Forests(_, _, _)
\* The trees of n nodes whose root has kind k and depth d.
Trees(k, n, d) ==
    LET fs == Forests(ChildKinds(k), n - 1, d + 1) IN
    {Node(k, a, d, f) : a \in Attrs(k), f \in fs}

\* The sequences of trees of m nodes in all, with roots of the kinds ks.
Forests(ks, m, d) ==
    IF m = 0 THEN {<<>>}
    ELSE UNION {LET ts == Trees(k, j, d)
                    fs == Forests(ks, m - j, d)
                IN  {<<t>> \o f : t \in ts, f \in fs}
                : k \in ks, j \in 1..m}

\* Trees of at most MaxNodes nodes.
GrammarTrees == UNION {Trees("TRANSLATION_UNIT", n, 0) : n \in 1..MaxNodes}

\* Members of an aggregate at depth 1: fields, methods, and anonymous
\* unions of fields and of an anonymous struct of fields.
MemberMenu ==
    LET F(n, t, d) == Node("FIELD_DECL", Attr(n, t), d, <<>>)
        M(n) == Node("CXX_METHOD", Attr(n, <<>>), 2, <<>>)
        A(k, d, ms) == Node(k, Attr(<<>>, <<>>), d, ms)
    IN  {F(<<"a">>, <<"Int">>, 2), F(<<"b">>, <<"ConstantArray">>, 2),
         M(<<"get">>), M(<<"PCL">>), M(DeprecationMarker),
         A("ANONYMOUS_UNION_DECL", 2, <<F(<<"u">>, <<"Int">>, 3)>>),
         A("ANONYMOUS_UNION_DECL", 2,
           <<A("ANONYMOUS_STRUCT_DECL", 3,
               <<F(<<"x">>, <<"Int">>, 4), F(<<"y">>, <<"Int">>, 4)>>)>>)}

\* Translation units of one struct of at most MaxMembers members of the menu.
AggregateTrees ==
    {Node("TRANSLATION_UNIT", Attr(<<"include", "/", "file.h">>, <<>>), 0,
          <<Node("STRUCT_DECL", Attr(<<"S">>, <<>>), 1, ms)>>)
        : ms \in UNION {[1..n -> MemberMenu] : n \in 0..MaxMembers}}

\* What utils.read_json returns for an empty document: a falsy value.
EmptyJson == Node("", Attr(<<>>, <<>>), 0, <<>>)

Inputs == GrammarTrees \cup AggregateTrees \cup {EmptyJson}

\* ------------------------------------------------------------------------
\* The state.

VARIABLES
    header_info,   \* generate: the tree read from the file
    pc,            \* where generate is: "generate", "walk" (in bind.__init__),
                   \* "constructed", "returned", "KeyError", "Exception"
    calls,         \* the active calls of handle_node, outermost first
    state_stack,   \* bind._state_stack
    linelist,      \* bind._linelist
    skipped,       \* bind._skipped
    item,          \* bind.item
    kind,          \* bind.kind
    name,          \* bind.name
    members,       \* bind.members
    depth,         \* bind.depth
    lines_to_write \* generate: the list handle_final returned

vars == <<header_info, pc, calls, state_stack, linelist, skipped, item, kind,
          name, members, depth, lines_to_write>>

fields == <<item, kind, name, members, depth>>

\* A call of handle_node(item): its argument, the statement it is at
\* ("dispatch", "test", "loop", "end_scope", "pop"), and the loop's
\* iterator: the list it iterates and the index of the next element.
Call(it) == [item |-> it, at |-> "dispatch", iter |-> <<>>, i |-> 1]

\* _state_stack.append(...) and _state_stack.pop()
StackPush(s, frame) == Append(s, frame)
\* The exit of handle_node without the pop.
StackKeep(s) == s
StackPop(s) == SubSeq(s, 1, Len(s) - 1)

Top == calls[Len(calls)]

At(a) == pc = "walk" /\ calls # <<>> /\ Top.at = a

Goto(a) == calls' = [calls EXCEPT ![Len(calls)].at = a]

\* handle_node, from its entry to the push on _state_stack.
Enter(it) ==
    /\ item' = it
    /\ kind' = it.kind
    /\ name' = it.name
    /\ members' = it.members
    /\ depth' = it.depth
    /\ state_stack' = StackPush(state_stack,
            [kind |-> it.kind, name |-> it.name, depth |-> it.depth])

Init ==
    /\ header_info \in Inputs
    /\ pc = "generate"
    /\ calls = <<>>
    /\ state_stack = <<>>
    /\ linelist = <<>>
    /\ skipped = <<>>
    /\ item = EmptyJson
    /\ kind = ""
    /\ name = <<>>
    /\ members = <<>>
    /\ depth = 0
    /\ lines_to_write = <<>>

\* generate: the tree is empty, raise Exception("Empty json").
EmptyInput ==
    /\ pc = "generate"
    /\ header_info = EmptyJson
    /\ pc' = "Exception"
    /\ UNCHANGED <<header_info, calls, state_stack, linelist, skipped, fields,
                   lines_to_write>>

\* generate: bind(header_info), up to the push of the root's frame.
Construct ==
    /\ pc = "generate"
    /\ header_info # EmptyJson
    /\ pc' = "walk"
    /\ calls' = <<Call(header_info)>>
    /\ Enter(header_info)
    /\ UNCHANGED <<header_info, linelist, skipped, lines_to_write>>

\* self.kind_functions[self.kind]() with a kind that is a key.
Dispatch ==
    /\ At("dispatch")
    /\ kind \in RegisteredKinds
    /\ LET fn == kind_functions[kind].fn IN
       /\ linelist' = linelist \o
            (CASE fn = "handle_namespace" -> handle_namespace(name)
               [] fn = "handle_struct_decl" -> handle_struct_decl(name, members)
               [] fn = "handle_constructor" -> handle_constructor(members)
               [] fn = "handle_inclusion_directive" -> handle_inclusion_directive
               [] fn = "skip" -> <<>>)
       /\ skipped' = IF fn = "skip"
                     THEN Append(skipped, skip(item, kind, name))
                     ELSE skipped
    /\ Goto("test")
    /\ UNCHANGED <<header_info, pc, state_stack, fields, lines_to_write>>

\* self.kind_functions[self.kind] with a kind that is no key: KeyError.
Unhandled ==
    /\ At("dispatch")
    /\ kind \notin RegisteredKinds
    /\ pc' = "KeyError"
    /\ UNCHANGED <<header_info, calls, state_stack, linelist, skipped, fields,
                   lines_to_write>>

\* `if self.kind_functions[self.kind] is not self.skip:` and the start of
\* the loop over self.members.
Test ==
    /\ At("test")
    /\ IF ~is_(kind_functions[kind], self_skip)
       THEN calls' = [calls EXCEPT ![Len(calls)].at = "loop",
                                   ![Len(calls)].iter = members,
                                   ![Len(calls)].i = 1]
       ELSE Goto("end_scope")
    /\ UNCHANGED <<header_info, pc, state_stack, linelist, skipped, fields,
                   lines_to_write>>

\* One iteration of the loop: self.handle_node(sub_item), up to the push of
\* its frame.
Recurse ==
    /\ At("loop")
    /\ Top.i <= Len(Top.iter)
    /\ calls' = Append([calls EXCEPT ![Len(calls)].i = @ + 1],
                       Call(Top.iter[Top.i]))
    /\ Enter(Top.iter[Top.i])
    /\ UNCHANGED <<header_info, pc, linelist, skipped, lines_to_write>>

\* The loop is exhausted.
LoopEnd ==
    /\ At("loop")
    /\ Top.i > Len(Top.iter)
    /\ Goto("end_scope")
    /\ UNCHANGED <<header_info, pc, state_stack, linelist, skipped, fields,
                   lines_to_write>>

\* self.end_scope()
EndScope ==
    /\ At("end_scope")
    /\ linelist' = linelist \o end_scope(state_stack[Len(state_stack)])
    /\ Goto("pop")
    /\ UNCHANGED <<header_info, pc, state_stack, skipped, fields,
                   lines_to_write>>

\* self._state_stack.pop() and the return of handle_node; the return of the
\* outermost call ends bind.__init__.
Return ==
    /\ At("pop")
    /\ state_stack' = StackPop(state_stack)
    /\ calls' = SubSeq(calls, 1, Len(calls) - 1)
    /\ pc' = IF Len(calls) = 1 THEN "constructed" ELSE pc
    /\ UNCHANGED <<header_info, linelist, skipped, fields, lines_to_write>>

\* generate: bind_object.handle_final(filename, module_name="pcl").
Final ==
    /\ pc = "constructed"
    /\ LET filename == LastPart(header_info.name) IN
       /\ lines_to_write' = handle_final(linelist, filename, <<"pcl">>)
       /\ linelist' = handle_final_linelist(linelist, <<"pcl">>)
    /\ pc' = "returned"
    /\ UNCHANGED <<header_info, calls, state_stack, skipped, fields>>

Next ==
    \/ EmptyInput
    \/ Construct
    \/ Dispatch
    \/ Unhandled
    \/ Test
    \/ Recurse
    \/ LoopEnd
    \/ EndScope
    \/ Return
    \/ Final

Spec == Init /\ [][Next]_vars

\* ------------------------------------------------------------------------
\* Reading the emitted lines back.

IsClassLine(l) == l # <<>> /\ l[1] = "py::class_<"
IsFieldLine(l) ==
    l # <<>> /\ l[1] \in {".def_readwrite(\"", ".def_property_readonly(\""}
IsMethodLine(l) == l # <<>> /\ l[1] = ".def(\""
IsModuleLine(l) == l # <<>> /\ l[1] = "PYBIND11_MODULE("
IsNamespaceLine(l) == l # <<>> /\ l[1] = "namespace "

RECURSIVE UpToQuote(_)
\* The tokens of s before the token that closes the quoted name.
UpToQuote(s) ==
    IF s = <<>> \/ Head(s) \in {"\", &", "\", [](", "\", py::overload_cast<>(&"}
    THEN <<>>
    ELSE <<Head(s)>> \o UpToQuote(Tail(s))

\* The member name a field or method line exposes.
ExposedName(l) == UpToQuote(Tail(l))

Names(ns) == [i \in 1..Len(ns) |-> ns[i].name]
ExposedNames(ls) == [i \in 1..Len(ls) |-> ExposedName(ls[i])]

\* The lines a step appended to _linelist.
Appended == SubSeq(linelist', Len(linelist) + 1, Len(linelist'))

\* The step is the dispatch of an aggregate declaration.
AggregateDispatch ==
    /\ At("dispatch")
    /\ kind \in {"STRUCT_DECL", "CLASS_DECL"}
    /\ calls' # calls

\* The scope tokens of the output, in order: the "{" of a module or
\* namespace line and the start of a py::class_ chain open a scope, a "}"
\* and a ";" line close one.
ScopeTokens(ls) ==
    LET IsScopeToken(t) == t \in {"{", "py::class_<", "}", ";"}
        toks == Flatten(ls)
    IN  SelectSeq(toks, IsScopeToken)

RECURSIVE Balanced(_, _)
\* Every close matches the innermost open scope, and none stays open.
Balanced(toks, open) ==
    IF toks = <<>> THEN open = <<>>
    ELSE LET t == Head(toks) IN
         IF t \in {"{", "py::class_<"}
         THEN Balanced(Tail(toks), Append(open, t))
         ELSE /\ open # <<>>
              /\ open[Len(open)] = (IF t = "}" THEN "{" ELSE "py::class_<")
              /\ Balanced(Tail(toks), SubSeq(open, 1, Len(open) - 1))

RECURSIVE HasUnknownKind(_)
\* Some node of the tree has a kind that is no key of kind_functions.
HasUnknownKind(n) ==
    \/ n.kind \notin RegisteredKinds
    \/ \E i \in 1..Len(n.members) : HasUnknownKind(n.members[i])

\* ------------------------------------------------------------------------
\* The claims.

\* C1: the list handle_final returns is balanced: every opened scope (the
\* module's "{", a namespace's "{", a py::class_ chain) has one matching
\* close ("}" or ";"), and the closes come in LIFO order.
C1_Balance == pc = "returned" => Balanced(ScopeTokens(lines_to_write), <<>>)

C3_RecursionRule ==
    \A j \in 1..(Len(calls) - 1) :
        kind_functions[calls[j].item.kind].policy
            \in {"emit", "no_need_to_handle"}

\* The members of an aggregate that the second loop gives a line: the
\* FIELD_DECL members and the CXX_METHOD members that are bound.
RECURSIVE DirectMembers(_)
DirectMembers(ms) ==
    IF ms = <<>> THEN <<>>
    ELSE IF \/ Head(ms).kind = "FIELD_DECL"
            \/ Head(ms).kind = "CXX_METHOD" /\ NotDeprecated(Head(ms).name)
         THEN <<Head(ms)>> \o DirectMembers(Tail(ms))
    ELSE DirectMembers(Tail(ms))

\* The lines after the registration and default-constructor lines.
Body(seg) == SubSeq(seg, 3, Len(seg))

\* C4, as stated: handle_struct_decl appends the py::class_ line, the
\* default-constructor line, then field lines only, then method lines only
\* (no method line precedes a field line), each group in source order.
C4_FixedOrder ==
    [][AggregateDispatch =>
        LET seg == Appended IN
        /\ Len(seg) >= 2 /\ IsClassLine(seg[1])
        /\ seg[2] = DefaultConstructorLine
        /\ \A i, j \in 3..Len(seg) :
              i < j => ~(IsMethodLine(seg[i]) /\ IsFieldLine(seg[j]))
        /\ ExposedNames(SelectSeq(Body(seg), IsMethodLine))
              = Names(SelectSeq(DirectMembers(members),
                                  LAMBDA m : m.kind = "CXX_METHOD"))]_vars

\* C4, amended: handle_struct_decl appends the py::class_ line, the
\* default-constructor line, the lines of the fields that
\* get_fields_from_anonymous collects, which are all field lines, and then
\* one line per FIELD_DECL member and per bound CXX_METHOD member,
\* interleaved in the source order of the members.
C4_SourceOrder ==
    [][AggregateDispatch =>
        LET seg == Appended
            direct == DirectMembers(members)
            k == Len(seg) - 2 - Len(direct)
        IN  /\ Len(seg) >= 2 /\ IsClassLine(seg[1])
            /\ seg[2] = DefaultConstructorLine
            /\ k >= 0
            /\ \A i \in 1..k : IsFieldLine(Body(seg)[i])
            /\ \A i \in 1..Len(direct) :
                  LET l == Body(seg)[k + i] IN
                  /\ ExposedName(l) = direct[i].name
                  /\ IF direct[i].kind = "FIELD_DECL"
                     THEN IsFieldLine(l) ELSE IsMethodLine(l)]_vars

\* C4, its case: a method declared before a field, both bound; the method
\* line is followed by the field line.
C4_Witness ==
    /\ pc = "returned"
    /\ \E i \in 1..(Len(linelist) - 1) :
          /\ IsMethodLine(linelist[i])
          /\ IsFieldLine(linelist[i + 1])
    /\ \E i \in 1..(Len(linelist) - 1) :
          /\ IsFieldLine(linelist[i])
          /\ IsMethodLine(linelist[i + 1])

\* The fields reachable from the anonymous union/struct members through
\* anonymous unions and structs only.
AnonymousFields(ms) ==
    Flatten([i \in 1..Len(ms) |->
        IF ms[i].kind \in AnonymousKinds
        THEN get_fields_from_anonymous(ms[i]) ELSE <<>>])

\* C5: the flattened field lines handle_struct_decl appends (those before
\* the lines of the direct members) are one per FIELD_DECL reachable from an
\* anonymous union/struct member through anonymous unions and structs, in
\* encounter order; members of other kinds contribute none.
C5_AnonymousFlattening ==
    [][AggregateDispatch =>
        LET seg == Appended
            k == Len(seg) - 2 - Len(DirectMembers(members))
        IN  ExposedNames(SubSeq(Body(seg), 1, k))
                = Names(AnonymousFields(members))]_vars

\* C6: handle_struct_decl appends one method line per CXX_METHOD member
\* whose name is not exactly PCL_DEPRECATED, and none for that name.
C6_DeprecatedExclusion ==
    [][AggregateDispatch =>
        ExposedNames(SelectSeq(Appended, IsMethodLine))
            = Names(SelectSeq(members,
                    LAMBDA m : m.kind = "CXX_METHOD"
                               /\ m.name # DeprecationMarker))]_vars

\* C7: the list handle_final returns is the include line, the preamble, the
\* fragments with the module declaration put once, in front of the first
\* fragment that is no namespace opening, the others verbatim, and one "}".
C7_ModuleAssembly ==
    [][pc = "constructed" /\ pc' = "returned" =>
        LET out == lines_to_write'
            n == Len(linelist)
            body == SubSeq(out, 7, Len(out) - 1)
        IN  /\ Len(out) = n + 7
            /\ out[1] = <<"#include <", "file.h", ">">>
            /\ SubSeq(out, 2, 6) = initial_pybind_lines
            /\ out[Len(out)] = <<"}">>
            /\ Len(SelectSeq(out, IsModuleLine)) = 1
            /\ \E p \in 1..n :
                  /\ \A i \in 1..(p - 1) :
                        IsNamespaceLine(linelist[i]) /\ body[i] = linelist[i]
                  /\ ~IsNamespaceLine(linelist[p])
                  /\ body[p] = <<"PYBIND11_MODULE(", "pcl", ", m)", "{">>
                               \o linelist[p]
                  /\ \A i \in (p + 1)..n : body[i] = linelist[i]]_vars

\* The kinds whose registered handler is skip.
SkipKinds == {k \in RegisteredKinds : kind_functions[k].fn = "skip"}

\* C8: the dispatch and exit steps of a node whose handler is skip leave
\* _linelist unchanged, and its dispatch appends one record to _skipped.
C8_SkipFrame ==
    [][(pc = "walk" /\ calls # <<>> /\ Top.item.kind \in SkipKinds
            /\ Top.at \in {"dispatch", "end_scope", "pop"}) =>
        /\ linelist' = linelist
        /\ Top.at = "dispatch" => Len(skipped') = Len(skipped) + 1]_vars

\* The closing line the claim gives each kind.
CloseToken(k) ==
    IF k = "NAMESPACE" THEN << <<"}">> >>
    ELSE IF k \in {"STRUCT_DECL", "CLASS_DECL", "CLASS_TEMPLATE"}
         THEN << <<";">> >>
    ELSE <<>>

\* C9: at the exit of a node end_scope appends "}" for a NAMESPACE, ";" for
\* a STRUCT_DECL, CLASS_DECL or CLASS_TEMPLATE, and nothing for another kind.
C9_CloseToken ==
    [][At("end_scope") =>
        linelist' = linelist \o CloseToken(Top.item.kind)]_vars

\* C10: during the walk _state_stack holds one frame {kind, name, depth}
\* per active call of handle_node, in root-to-leaf order, each the frame of
\* that call's node, each node a member of the one above; so the top frame
\* at end_scope is that of the node being exited; and the stack is empty
\* once the walk of the root has returned.
C10_StackDiscipline ==
    /\ pc = "walk" =>
          /\ Len(state_stack) = Len(calls)
          /\ calls[1].item = header_info
          /\ \A j \in 1..Len(calls) :
                /\ state_stack[j] = [kind |-> calls[j].item.kind,
                                     name |-> calls[j].item.name,
                                     depth |-> j - 1]
                /\ j > 1 => /\ calls[j - 1].at = "loop"
                            /\ calls[j].item
                                 = calls[j - 1].item.members[calls[j - 1].i - 1]
    /\ pc \in {"constructed", "returned"} => state_stack = <<>>

\* C10, its case: end_scope is about to run for a node below the root whose
\* members were walked, so the shared field kind holds a descendant's kind
\* and not the kind of the top frame.
C10_Witness ==
    /\ At("end_scope")
    /\ Len(state_stack) >= 2
    /\ kind # Top.item.kind
    /\ state_stack[Len(state_stack)].kind = Top.item.kind

=============================================================================
